---- MODULE Spec2Model ----
(***************************************************************************)
(* A model of actions-dashboard (src/main.go): the run of _main, from      *)
(* populateRepos over getWorkflows to the printed card grid, and the pure  *)
(* helpers RenderHealth, AverageElapsed and truncateWorkflowName.          *)
(*                                                                         *)
(* Conventions.  A time.Duration is kept in milliseconds and a time.Time   *)
(* in milliseconds since an arbitrary epoch (TLC's integers are 32 bits    *)
(* wide, Go's nanoseconds do not fit).  A Go string is the sequence of its *)
(* bytes, each byte a number in 0..255.  A rendered glyph is named by its  *)
(* meaning ("pass", "neutral", "fail"); lipgloss colours are left out.     *)
(***************************************************************************)
EXTENDS Integers, Sequences, FiniteSets, TLC

VARIABLES
    pc,               \* the statement of _main / getWorkflows about to run
    opts,             \* *options: Repositories, Last, Selector
    now,              \* the wall clock read by time.Since
    repos,            \* []*repositoryData of _main
    gi,               \* populateRepos: index into opts.Repositories
    cardsPerRow,      \* _main: cardsPerRow
    totalBillableMs,  \* _main: totalBillableMs
    ri,               \* _main: index of the first loop over repos
    p,                \* getWorkflows: the workflow payloads
    wi,               \* getWorkflows: index of the loop over p
    out,              \* getWorkflows: out
    totalMs,          \* getWorkflows: totalMs
    rs,               \* getWorkflows: the run payloads of the current workflow
    runs,             \* getWorkflows: runs
    ti,               \* getWorkflows: index of the loop over runs (timing)
    pi,               \* _main: index of the second loop over repos
    cardRows,         \* _main: cardRows
    rowIndex,         \* _main: rowIndex
    ci,               \* _main: index of the loop over r.Workflows
    printed,          \* what has been written to stdout, in order
    fetches,          \* every call of gh issued so far, in order, with its outcome
    w,                \* the receiver / argument of a helper called on its own
    length,           \* truncateWorkflowName: length
    ret               \* the value the helper returned

vars == <<pc, opts, now, repos, gi, cardsPerRow, totalBillableMs, ri, p, wi, out,
          totalMs, rs, runs, ti, pi, cardRows, rowIndex, ci, printed, fetches,
          w, length, ret>>

-----------------------------------------------------------------------------
(* Program constants *)

defaultMaxRuns == 5
defaultWorkflowNameLength == 17
Second == 1000
Hour == 3600 * Second

(* Bounds of the model *)

MaxRuns == 7          \* longest w.Runs given to RenderHealth / AverageElapsed
MaxNameLen == 5       \* longest name given to truncateWorkflowName
MaxLimit == 4         \* largest length given to truncateWorkflowName

-----------------------------------------------------------------------------
(* Helpers on sequences and numbers *)

Min(a, b) == IF a < b THEN a ELSE b

Max(a, b) == IF a > b THEN a ELSE b

RECURSIVE SumSeq(_)
SumSeq(s) == IF s = <<>> THEN 0 ELSE Head(s) + SumSeq(Tail(s))

RECURSIVE MaxSeq(_)
MaxSeq(s) == IF Len(s) = 1 THEN Head(s) ELSE Max(Head(s), MaxSeq(Tail(s)))

RECURSIVE Concat(_)
Concat(ss) == IF ss = <<>> THEN <<>> ELSE Head(ss) \o Concat(Tail(ss))

SeqsUpTo(S, n) == UNION {[1..k -> S] : k \in 0..n}

-----------------------------------------------------------------------------
(* type run, type workflow *)

Run(finished, elapsed, status, conclusion, url) ==
    [Finished |-> finished, Elapsed |-> elapsed, Status |-> status,
     Conclusion |-> conclusion, URL |-> url]

Workflow(name, rns, billableMs) ==
    [Name |-> name, Runs |-> rns, BillableMs |-> billableMs]

-----------------------------------------------------------------------------
(* func (w *workflow) RenderHealth() string *)

\* The glyph of one run.  A variant that paints a cancelled run as a failure:
HealthSymbolCancelledFails(r) ==
    IF r.Status # "completed" THEN "neutral"
    ELSE IF r.Conclusion = "success" THEN "pass"
    ELSE IF r.Conclusion \in {"skipped", "neutral"} THEN "neutral"
    ELSE "fail"

HealthSymbol(r) ==
    IF r.Status # "completed" THEN "neutral"
    ELSE IF r.Conclusion = "success" THEN "pass"
    ELSE IF r.Conclusion \in {"skipped", "cancelled", "neutral"} THEN "neutral"
    ELSE "fail"

\* The loop: i is the zero-based index of range, results the glyphs so far.
RECURSIVE HealthLoop(_, _, _)
HealthLoop(rns, i, results) ==
    IF i >= Len(rns) THEN results
    ELSE IF i > defaultMaxRuns THEN results
    ELSE HealthLoop(rns, i + 1, Append(results, HealthSymbol(rns[i + 1])))

RenderHealth(wf) == HealthLoop(wf.Runs, 0, <<>>)

-----------------------------------------------------------------------------
(* func (w *workflow) AverageElapsed() time.Duration *)

\* int(r.Elapsed.Seconds()): the float is truncated towards zero; durations
\* here are never negative (Elapsed = UpdatedAt - CreatedAt).
WholeSeconds(d) == d \div Second

RECURSIVE ElapsedLoop(_, _, _)
ElapsedLoop(rns, i, totalTime) ==
    IF i >= Len(rns) THEN totalTime
    ELSE IF i > defaultMaxRuns THEN totalTime
    ELSE ElapsedLoop(rns, i + 1, totalTime + WholeSeconds(rns[i + 1].Elapsed))

\* fmt.Sprintf("%d", n) for n >= 0: the decimal digits, as bytes.
RECURSIVE Digits(_)
Digits(n) == IF n < 10 THEN <<48 + n>> ELSE Append(Digits(n \div 10), 48 + (n % 10))

\* fmt.Sprintf("%ds", n)
SprintfSeconds(n) == Append(Digits(n), 115)

\* time.ParseDuration on digits followed by a unit; 0 on a malformed string
\* (the error is dropped by the caller).
RECURSIVE ParseDigits(_, _)
ParseDigits(s, acc) ==
    IF s = <<>> THEN acc ELSE ParseDigits(Tail(s), acc * 10 + (Head(s) - 48))

ParseDuration(s) ==
    IF Len(s) >= 2 /\ s[Len(s)] = 115
          /\ \A k \in 1..(Len(s) - 1) : s[k] \in 48..57
    THEN ParseDigits(SubSeq(s, 1, Len(s) - 1), 0) * Second
    ELSE 0

\* A variant that divides by the number of runs instead of the cap:
AverageElapsedByCount(wf) ==
    ParseDuration(SprintfSeconds(
        IF wf.Runs = <<>> THEN 0
        ELSE ElapsedLoop(wf.Runs, 0, 0) \div Len(wf.Runs)))

AverageElapsed(wf) ==
    ParseDuration(SprintfSeconds(ElapsedLoop(wf.Runs, 0, 0) \div defaultMaxRuns))

-----------------------------------------------------------------------------
(* func truncateWorkflowName(name string, length int) string *)

Ellipsis == <<46, 46, 46>>

\* A variant that also cuts a name of exactly the limit:
truncateWorkflowNameAtLimit(name, len) ==
    IF Len(name) >= len THEN SubSeq(name, 1, len) \o Ellipsis ELSE name

truncateWorkflowName(name, len) ==
    IF Len(name) > len THEN SubSeq(name, 1, len) \o Ellipsis ELSE name

-----------------------------------------------------------------------------
(* func (w *workflow) RenderCard() string: the fields the template shows *)

RenderCard(wf) ==
    IF Len(wf.Runs) = 0
    THEN [Name |-> truncateWorkflowName(wf.Name, defaultWorkflowNameLength),
          Body |-> "No runs"]
    ELSE [Name |-> truncateWorkflowName(wf.Name, defaultWorkflowNameLength),
          Body |-> "runs",
          Health |-> RenderHealth(wf),
          AvgElapsed |-> AverageElapsed(wf),
          BillableMs |-> wf.BillableMs]

-----------------------------------------------------------------------------
(* What the gh api calls can answer *)

MaxRepos == 2         \* most repositories of a run
MaxWorkflows == 2     \* most workflows a repository lists
MaxRawRuns == 3       \* longest run listing given to the run filter alone
MaxCards == 8         \* most workflows of the repository laid out alone
MaxCardsPerRow == 4   \* largest cardsPerRow of the layout alone

Base == 200 * Hour                \* the clock when the run starts
Clock == {Base, Base + Hour}      \* the instants time.Since can read
MainClock == {Base + Hour}        \* the instant it reads in a whole run
Windows == {2 * Hour, 24 * Hour}  \* values of --last

RepositoryData(name, private) ==
    [Name |-> name, Private |-> private, Workflows |-> <<>>]

\* Answers of orgs/<selector>/repos and users/<selector>/repos.
RepoListings ==
    UNION {{[k \in 1..n |-> RepositoryData(k, priv[k])] : priv \in [1..n -> BOOLEAN]}
           : n \in 0..MaxRepos}

\* Answers of repos/<name>/actions/workflows.
WorkflowsPayload(id, state) ==
    [Id |-> id, State |-> state, Name |-> <<119, 48 + id>>, URL |-> id]

WorkflowListings ==
    UNION {{[k \in 1..n |-> WorkflowsPayload(k, st[k])]
              : st \in [1..n -> {"active", "disabled_manually"}]}
           : n \in 0..MaxWorkflows}

\* Answers of <workflow url>/runs: a payload per run; a run took 90 s.
RunPayload(id, updatedAt, status, conclusion) ==
    [Id |-> id, CreatedAt |-> updatedAt - 90 * Second, UpdatedAt |-> updatedAt,
     Status |-> status, Conclusion |-> conclusion, URL |-> id]

\* (Status, Conclusion, hours before Base at which the run was last updated)
Fresh == <<"completed", "success", 1>>
Edge == <<"completed", "failure", 23>>
Stale == <<"completed", "success", 30>>
InProgress == <<"in_progress", "", 1>>
Queued == <<"queued", "", 1>>

Listing(kinds) ==
    [k \in DOMAIN kinds |->
        RunPayload(k, Base - kinds[k][3] * Hour, kinds[k][1], kinds[k][2])]

\* The listings a whole run is checked with.
MainListings ==
    {Listing(<<>>), Listing(<<InProgress, Fresh, Stale>>), Listing(<<Fresh, Edge, Fresh>>)}

\* The listings the run filter alone is checked with.
FilterListings ==
    {Listing(kinds) : kinds \in SeqsUpTo({Fresh, Edge, Stale, InProgress, Queued}, MaxRawRuns)}

\* Answers of <run url>/timing, .billable
BillablePayload(macos, windows, ubuntu) ==
    [MacOs |-> [TotalMs |-> macos], Windows |-> [TotalMs |-> windows],
     Ubuntu |-> [TotalMs |-> ubuntu]]

BillablePayloads == {BillablePayload(0, 0, 60000), BillablePayload(120000, 30000, 1000)}

\* Terminal widths: 40 columns hold no card column, 44 one, 66 two.
Widths == {40, 44, 66}

\* A call of gh as it is remembered: what was asked, and whether it failed.
Fetch(kind, repo, wf, rn, ok, ms) ==
    [kind |-> kind, repo |-> repo, wf |-> wf, run |-> rn, ok |-> ok, ms |-> ms]

-----------------------------------------------------------------------------
(* func populateRepos(opts *options) ([]*repositoryData, error) *)

Init ==
    /\ pc = "populateRepos"
    /\ \E n \in 0..MaxRepos :
          opts = [Repositories |-> [k \in 1..n |-> k], Last |-> 24 * Hour,
                  Selector |-> "octo"]
    /\ now = Base
    /\ repos = <<>>
    /\ gi = 1
    /\ cardsPerRow = 0
    /\ totalBillableMs = 0
    /\ ri = 1
    /\ p = <<>>
    /\ wi = 1
    /\ out = <<>>
    /\ totalMs = 0
    /\ rs = <<>>
    /\ runs = <<>>
    /\ ti = 1
    /\ pi = 1
    /\ cardRows = <<>>
    /\ rowIndex = 0
    /\ ci = 1
    /\ printed = <<>>
    /\ fetches = <<>>
    /\ w = Workflow(<<>>, <<>>, 0)
    /\ length = 0
    /\ ret = <<>>

\* if len(opts.Repositories) > 0
PopulateRepos ==
    /\ pc = "populateRepos"
    /\ pc' = IF Len(opts.Repositories) > 0 THEN "getRepo" ELSE "getAllReposOrg"
    /\ UNCHANGED <<opts, now, repos, gi, cardsPerRow, totalBillableMs, ri, p, wi, out,
                   totalMs, rs, runs, ti, pi, cardRows, rowIndex, ci, printed, fetches,
                   w, length, ret>>

\* getRepo answers for opts.Repositories[gi]
GetRepoOk ==
    /\ pc = "getRepo"
    /\ \E private \in BOOLEAN :
          repos' = Append(repos, RepositoryData(opts.Repositories[gi], private))
    /\ fetches' = Append(fetches, Fetch("repo", gi, 0, 0, TRUE, 0))
    /\ gi' = gi + 1
    /\ pc' = IF gi = Len(opts.Repositories) THEN "getTerminalWidth" ELSE "getRepo"
    /\ UNCHANGED <<opts, now, cardsPerRow, totalBillableMs, ri, p, wi, out,
                   totalMs, rs, runs, ti, pi, cardRows, rowIndex, ci, printed,
                   w, length, ret>>

\* getRepo fails: populateRepos and _main return the error
GetRepoFail ==
    /\ pc = "getRepo"
    /\ fetches' = Append(fetches, Fetch("repo", gi, 0, 0, FALSE, 0))
    /\ pc' = "error"
    /\ UNCHANGED <<opts, now, repos, gi, cardsPerRow, totalBillableMs, ri, p, wi, out,
                   totalMs, rs, runs, ti, pi, cardRows, rowIndex, ci, printed,
                   w, length, ret>>

\* getAllRepos("orgs/...") answers
GetAllReposOrgOk ==
    /\ pc = "getAllReposOrg"
    /\ repos' \in RepoListings
    /\ fetches' = Append(fetches, Fetch("orgs", 0, 0, 0, TRUE, 0))
    /\ pc' = "getTerminalWidth"
    /\ UNCHANGED <<opts, now, gi, cardsPerRow, totalBillableMs, ri, p, wi, out,
                   totalMs, rs, runs, ti, pi, cardRows, rowIndex, ci, printed,
                   w, length, ret>>

\* getAllRepos("orgs/...") fails: the selector is tried as a user
GetAllReposOrgFail ==
    /\ pc = "getAllReposOrg"
    /\ fetches' = Append(fetches, Fetch("orgs", 0, 0, 0, FALSE, 0))
    /\ pc' = "getAllReposUser"
    /\ UNCHANGED <<opts, now, repos, gi, cardsPerRow, totalBillableMs, ri, p, wi, out,
                   totalMs, rs, runs, ti, pi, cardRows, rowIndex, ci, printed,
                   w, length, ret>>

\* getAllRepos("users/...") answers
GetAllReposUserOk ==
    /\ pc = "getAllReposUser"
    /\ repos' \in RepoListings
    /\ fetches' = Append(fetches, Fetch("users", 0, 0, 0, TRUE, 0))
    /\ pc' = "getTerminalWidth"
    /\ UNCHANGED <<opts, now, gi, cardsPerRow, totalBillableMs, ri, p, wi, out,
                   totalMs, rs, runs, ti, pi, cardRows, rowIndex, ci, printed,
                   w, length, ret>>

\* getAllRepos("users/...") fails too: populateRepos and _main return the error
GetAllReposUserFail ==
    /\ pc = "getAllReposUser"
    /\ fetches' = Append(fetches, Fetch("users", 0, 0, 0, FALSE, 0))
    /\ pc' = "error"
    /\ UNCHANGED <<opts, now, repos, gi, cardsPerRow, totalBillableMs, ri, p, wi, out,
                   totalMs, rs, runs, ti, pi, cardRows, rowIndex, ci, printed,
                   w, length, ret>>

-----------------------------------------------------------------------------
(* func _main(opts *options) error: up to the first loop over repos *)

columnWidth == defaultWorkflowNameLength + 5

\* cardsPerRow := (getTerminalWidth() / columnWidth) - 1
GetTerminalWidth ==
    /\ pc = "getTerminalWidth"
    /\ \E width \in Widths : cardsPerRow' = (width \div columnWidth) - 1
    /\ pc' = "repoLoop"
    /\ UNCHANGED <<opts, now, repos, gi, totalBillableMs, ri, p, wi, out,
                   totalMs, rs, runs, ti, pi, cardRows, rowIndex, ci, printed, fetches,
                   w, length, ret>>

\* term.GetSize fails (stdout is no terminal): getTerminalWidth panics
GetTerminalWidthPanic ==
    /\ pc = "getTerminalWidth"
    /\ pc' = "panic"
    /\ UNCHANGED <<opts, now, repos, gi, cardsPerRow, totalBillableMs, ri, p, wi, out,
                   totalMs, rs, runs, ti, pi, cardRows, rowIndex, ci, printed, fetches,
                   w, length, ret>>

\* for _, r := range repos: the next repository, or on to the printing
RepoLoop ==
    /\ pc = "repoLoop"
    /\ pc' = IF ri > Len(repos) THEN "printHeader" ELSE "fetchWorkflows"
    /\ UNCHANGED <<opts, now, repos, gi, cardsPerRow, totalBillableMs, ri, p, wi, out,
                   totalMs, rs, runs, ti, pi, cardRows, rowIndex, ci, printed, fetches,
                   w, length, ret>>

-----------------------------------------------------------------------------
(* func getWorkflows(repoData repositoryData, last time.Duration) *)

\* strings.HasPrefix(w.State, "disabled")
HasDisabledPrefix(state) == state \in {"disabled_manually", "disabled_inactivity"}

\* The run filter, one payload: the run is kept when it is completed and
\* last - time.Since(r.UpdatedAt) > 0.  A variant that also keeps a run that
\* finished exactly `last` ago:
KeepRunInclusive(r, last, t) ==
    /\ r.Status = "completed"
    /\ last - (t - r.UpdatedAt) >= 0

KeepRun(r, last, t) ==
    /\ r.Status = "completed"
    /\ last - (t - r.UpdatedAt) > 0

\* for _, r := range rs { ... runs = append(runs, rr) }
RECURSIVE FilterRuns(_, _, _, _)
FilterRuns(payloads, last, t, acc) ==
    IF payloads = <<>> THEN acc
    ELSE LET r == Head(payloads)
             rr == Run(r.UpdatedAt, r.UpdatedAt - r.CreatedAt, r.Status,
                       r.Conclusion, r.URL)
         IN FilterRuns(Tail(payloads), last, t,
                       IF KeepRun(r, last, t) THEN Append(acc, rr) ELSE acc)

\* if repoData.Private { for _, r := range runs {: is there a timing call to
\* make for runs[i]?  A variant that forgets the repository's privacy:
NeedsTimingAlways(private, rns, i) == i <= Len(rns)

NeedsTiming(private, rns, i) == private /\ i <= Len(rns)

\* gh api repos/<name>/actions/workflows answers; out and totalMs start empty
FetchWorkflowsOk ==
    /\ pc = "fetchWorkflows"
    /\ p' \in WorkflowListings
    /\ fetches' = Append(fetches, Fetch("workflows", ri, 0, 0, TRUE, 0))
    /\ wi' = 1
    /\ out' = <<>>
    /\ totalMs' = 0
    /\ pc' = "workflowLoop"
    /\ UNCHANGED <<opts, now, repos, gi, cardsPerRow, totalBillableMs, ri,
                   rs, runs, ti, pi, cardRows, rowIndex, ci, printed,
                   w, length, ret>>

\* the workflow listing fails: getWorkflows and _main return the error
FetchWorkflowsFail ==
    /\ pc = "fetchWorkflows"
    /\ fetches' = Append(fetches, Fetch("workflows", ri, 0, 0, FALSE, 0))
    /\ pc' = "error"
    /\ UNCHANGED <<opts, now, repos, gi, cardsPerRow, totalBillableMs, ri, p, wi, out,
                   totalMs, rs, runs, ti, pi, cardRows, rowIndex, ci, printed,
                   w, length, ret>>

\* for _, w := range p: past the last payload getWorkflows returns out, and
\* _main stores it in r.Workflows and adds every BillableMs to totalBillableMs
WorkflowLoopReturn ==
    /\ pc = "workflowLoop"
    /\ wi > Len(p)
    /\ repos' = [repos EXCEPT ![ri].Workflows = out]
    /\ totalBillableMs' =
          totalBillableMs + SumSeq([k \in 1..Len(out) |-> out[k].BillableMs])
    /\ ri' = ri + 1
    /\ pc' = "repoLoop"
    /\ UNCHANGED <<opts, now, gi, cardsPerRow, p, wi, out,
                   totalMs, rs, runs, ti, pi, cardRows, rowIndex, ci, printed, fetches,
                   w, length, ret>>

\* a disabled workflow is skipped
WorkflowLoopSkip ==
    /\ pc = "workflowLoop"
    /\ wi <= Len(p)
    /\ HasDisabledPrefix(p[wi].State)
    /\ wi' = wi + 1
    /\ UNCHANGED <<pc, opts, now, repos, gi, cardsPerRow, totalBillableMs, ri, p, out,
                   totalMs, rs, runs, ti, pi, cardRows, rowIndex, ci, printed, fetches,
                   w, length, ret>>

\* an enabled workflow: on to its run listing
WorkflowLoopEnter ==
    /\ pc = "workflowLoop"
    /\ wi <= Len(p)
    /\ ~HasDisabledPrefix(p[wi].State)
    /\ pc' = "fetchRuns"
    /\ UNCHANGED <<opts, now, repos, gi, cardsPerRow, totalBillableMs, ri, p, wi, out,
                   totalMs, rs, runs, ti, pi, cardRows, rowIndex, ci, printed, fetches,
                   w, length, ret>>

\* gh api <workflow url>/runs answers one of `listings`; the runs are
\* filtered against the clock, which reads one of `clock`
FetchRunsOk(listings, clock) ==
    /\ pc = "fetchRuns"
    /\ \E l \in listings, t \in clock :
          /\ t >= now
          /\ rs' = l
          /\ now' = t
          /\ runs' = FilterRuns(l, opts.Last, t, <<>>)
    /\ fetches' = Append(fetches, Fetch("runs", ri, wi, 0, TRUE, 0))
    /\ ti' = 1
    /\ pc' = "timingLoop"
    /\ UNCHANGED <<opts, repos, gi, cardsPerRow, totalBillableMs, ri, p, wi, out,
                   totalMs, pi, cardRows, rowIndex, ci, printed,
                   w, length, ret>>

\* the run listing fails: getWorkflows and _main return the error.  A
\* variant that gives the workflow up and goes on with the next one:
FetchRunsFailSkipsWorkflow ==
    /\ pc = "fetchRuns"
    /\ fetches' = Append(fetches, Fetch("runs", ri, wi, 0, FALSE, 0))
    /\ wi' = wi + 1
    /\ pc' = "workflowLoop"
    /\ UNCHANGED <<opts, now, repos, gi, cardsPerRow, totalBillableMs, ri, p, out,
                   totalMs, rs, runs, ti, pi, cardRows, rowIndex, ci, printed,
                   w, length, ret>>

FetchRunsFail ==
    /\ pc = "fetchRuns"
    /\ fetches' = Append(fetches, Fetch("runs", ri, wi, 0, FALSE, 0))
    /\ pc' = "error"
    /\ UNCHANGED <<opts, now, repos, gi, cardsPerRow, totalBillableMs, ri, p, wi, out,
                   totalMs, rs, runs, ti, pi, cardRows, rowIndex, ci, printed,
                   w, length, ret>>

\* a timing call is due for runs[ti]
TimingLoopEnter ==
    /\ pc = "timingLoop"
    /\ NeedsTiming(repos[ri].Private, runs, ti)
    /\ pc' = "fetchTiming"
    /\ UNCHANGED <<opts, now, repos, gi, cardsPerRow, totalBillableMs, ri, p, wi, out,
                   totalMs, rs, runs, ti, pi, cardRows, rowIndex, ci, printed, fetches,
                   w, length, ret>>

\* none is due: out = append(out, &workflow{Name, Runs: runs, BillableMs: totalMs})
TimingLoopAppend ==
    /\ pc = "timingLoop"
    /\ ~NeedsTiming(repos[ri].Private, runs, ti)
    /\ out' = Append(out, Workflow(p[wi].Name, runs, totalMs))
    /\ wi' = wi + 1
    /\ pc' = "workflowLoop"
    /\ UNCHANGED <<opts, now, repos, gi, cardsPerRow, totalBillableMs, ri, p,
                   totalMs, rs, runs, ti, pi, cardRows, rowIndex, ci, printed, fetches,
                   w, length, ret>>

\* gh api <run url>/timing answers: totalMs += MacOs + Windows + Ubuntu
FetchTimingOk ==
    /\ pc = "fetchTiming"
    /\ \E bp \in BillablePayloads :
          LET ms == bp.MacOs.TotalMs + bp.Windows.TotalMs + bp.Ubuntu.TotalMs
          IN /\ totalMs' = totalMs + ms
             /\ fetches' = Append(fetches,
                                  Fetch("timing", ri, Len(out) + 1, runs[ti].URL, TRUE, ms))
    /\ ti' = ti + 1
    /\ pc' = "timingLoop"
    /\ UNCHANGED <<opts, now, repos, gi, cardsPerRow, totalBillableMs, ri, p, wi, out,
                   rs, runs, pi, cardRows, rowIndex, ci, printed,
                   w, length, ret>>

\* the timing call fails: getWorkflows and _main return the error
FetchTimingFail ==
    /\ pc = "fetchTiming"
    /\ fetches' = Append(fetches,
                         Fetch("timing", ri, Len(out) + 1, runs[ti].URL, FALSE, 0))
    /\ pc' = "error"
    /\ UNCHANGED <<opts, now, repos, gi, cardsPerRow, totalBillableMs, ri, p, wi, out,
                   totalMs, rs, runs, ti, pi, cardRows, rowIndex, ci, printed,
                   w, length, ret>>

-----------------------------------------------------------------------------
(* func _main(opts *options) error: the printing *)

\* fmt.Println of the title and of "Total billable time: ..."
PrintHeader ==
    /\ pc = "printHeader"
    /\ printed' = printed \o <<[what |-> "title", last |-> opts.Last],
                               [what |-> "total", ms |-> totalBillableMs]>>
    /\ pi' = 1
    /\ pc' = "printRepo"
    /\ UNCHANGED <<opts, now, repos, gi, cardsPerRow, totalBillableMs, ri, p, wi, out,
                   totalMs, rs, runs, ti, cardRows, rowIndex, ci, fetches,
                   w, length, ret>>

\* int(math.Ceil(float64(n) / float64(perRow))), for perRow >= 1.  A variant
\* that divides the integers and so rounds down:
TotalRowsFloor(n, perRow) == n \div perRow

TotalRows(n, perRow) == (n + perRow - 1) \div perRow

\* if len(cardRows[rowIndex]) == cardsPerRow
RowFull(row, perRow) == Len(row) = perRow

\* for _, r := range repos: past the last repository _main returns nil
PrintDone ==
    /\ pc = "printRepo"
    /\ pi > Len(repos)
    /\ pc' = "done"
    /\ UNCHANGED <<opts, now, repos, gi, cardsPerRow, totalBillableMs, ri, p, wi, out,
                   totalMs, rs, runs, ti, pi, cardRows, rowIndex, ci, printed, fetches,
                   w, length, ret>>

\* a repository without workflows prints nothing
PrintRepoSkip ==
    /\ pc = "printRepo"
    /\ pi <= Len(repos)
    /\ Len(repos[pi].Workflows) = 0
    /\ pi' = pi + 1
    /\ UNCHANGED <<pc, opts, now, repos, gi, cardsPerRow, totalBillableMs, ri, p, wi, out,
                   totalMs, rs, runs, ti, cardRows, rowIndex, ci, printed, fetches,
                   w, length, ret>>

\* the repository's name and link are printed and the rows allocated
PrintRepo ==
    /\ pc = "printRepo"
    /\ pi <= Len(repos)
    /\ Len(repos[pi].Workflows) > 0
    /\ cardsPerRow >= 1
    /\ printed' = Append(printed, [what |-> "repo", name |-> repos[pi].Name])
    /\ cardRows' = [k \in 1..TotalRows(Len(repos[pi].Workflows), cardsPerRow) |-> <<>>]
    /\ rowIndex' = 0
    /\ ci' = 1
    /\ pc' = "packLoop"
    /\ UNCHANGED <<opts, now, repos, gi, cardsPerRow, totalBillableMs, ri, p, wi, out,
                   totalMs, rs, runs, ti, pi, fetches,
                   w, length, ret>>

\* with cardsPerRow <= 0 the quotient is +Inf or negative, its conversion to
\* int is no valid length and make panics, the name already printed
PrintRepoPanic ==
    /\ pc = "printRepo"
    /\ pi <= Len(repos)
    /\ Len(repos[pi].Workflows) > 0
    /\ cardsPerRow < 1
    /\ printed' = Append(printed, [what |-> "repo", name |-> repos[pi].Name])
    /\ pc' = "panic"
    /\ UNCHANGED <<opts, now, repos, gi, cardsPerRow, totalBillableMs, ri, p, wi, out,
                   totalMs, rs, runs, ti, pi, cardRows, rowIndex, ci, fetches,
                   w, length, ret>>

\* one turn of for _, w := range r.Workflows: the row index moves on when
\* the current row is full, the card is appended to the current row.  Both
\* cardRows[rowIndex] need an allocated row (Go panics otherwise), so the
\* turn is taken only with the index in range.
PackCard ==
    /\ pc = "packLoop"
    /\ ci <= Len(repos[pi].Workflows)
    /\ rowIndex < Len(cardRows)
    /\ LET idx == IF RowFull(cardRows[rowIndex + 1], cardsPerRow)
                  THEN rowIndex + 1 ELSE rowIndex
       IN /\ idx < Len(cardRows)
          /\ rowIndex' = idx
          /\ cardRows' = [cardRows EXCEPT
                            ![idx + 1] = Append(@, RenderCard(repos[pi].Workflows[ci]))]
    /\ ci' = ci + 1
    /\ UNCHANGED <<pc, opts, now, repos, gi, cardsPerRow, totalBillableMs, ri, p, wi, out,
                   totalMs, rs, runs, ti, pi, printed, fetches,
                   w, length, ret>>

\* for _, row := range cardRows { fmt.Println(JoinHorizontal(row...)) }
PrintRows ==
    /\ pc = "packLoop"
    /\ ci > Len(repos[pi].Workflows)
    /\ printed' = printed \o [k \in 1..Len(cardRows) |->
                                 [what |-> "row", repo |-> pi, cards |-> cardRows[k]]]
    /\ pi' = pi + 1
    /\ pc' = "printRepo"
    /\ UNCHANGED <<opts, now, repos, gi, cardsPerRow, totalBillableMs, ri, p, wi, out,
                   totalMs, rs, runs, ti, cardRows, rowIndex, ci, fetches,
                   w, length, ret>>

-----------------------------------------------------------------------------
(* The whole run *)

Next ==
    \/ PopulateRepos
    \/ GetRepoOk
    \/ GetRepoFail
    \/ GetAllReposOrgOk
    \/ GetAllReposOrgFail
    \/ GetAllReposUserOk
    \/ GetAllReposUserFail
    \/ GetTerminalWidth
    \/ GetTerminalWidthPanic
    \/ RepoLoop
    \/ FetchWorkflowsOk
    \/ FetchWorkflowsFail
    \/ WorkflowLoopReturn
    \/ WorkflowLoopSkip
    \/ WorkflowLoopEnter
    \/ FetchRunsOk(MainListings, MainClock)
    \/ FetchRunsFail
    \/ TimingLoopEnter
    \/ TimingLoopAppend
    \/ FetchTimingOk
    \/ FetchTimingFail
    \/ PrintHeader
    \/ PrintDone
    \/ PrintRepoSkip
    \/ PrintRepo
    \/ PrintRepoPanic
    \/ PackCard
    \/ PrintRows

Spec == Init /\ [][Next]_vars

-----------------------------------------------------------------------------
(* The run filter on its own: getWorkflows is about to list the runs of    *)
(* the one workflow of the one repository.                                 *)

InitFilter ==
    /\ pc = "fetchRuns"
    /\ \E last \in Windows :
          opts = [Repositories |-> <<>>, Last |-> last, Selector |-> "octo"]
    /\ now \in Clock
    /\ \E private \in BOOLEAN : repos = <<RepositoryData(1, private)>>
    /\ gi = 1
    /\ cardsPerRow = 2
    /\ totalBillableMs = 0
    /\ ri = 1
    /\ p = <<WorkflowsPayload(1, "active")>>
    /\ wi = 1
    /\ out = <<>>
    /\ totalMs = 0
    /\ rs = <<>>
    /\ runs = <<>>
    /\ ti = 1
    /\ pi = 1
    /\ cardRows = <<>>
    /\ rowIndex = 0
    /\ ci = 1
    /\ printed = <<>>
    /\ fetches = <<Fetch("orgs", 0, 0, 0, TRUE, 0), Fetch("workflows", 1, 0, 0, TRUE, 0)>>
    /\ w = Workflow(<<>>, <<>>, 0)
    /\ length = 0
    /\ ret = <<>>

NextFilter == FetchRunsOk(FilterListings, Clock)

SpecFilter == InitFilter /\ [][NextFilter]_vars

-----------------------------------------------------------------------------
(* The card grid on its own: every fetch is done, the header is printed,   *)
(* and the one repository has between 0 and MaxCards workflows.            *)

InitLayout ==
    /\ pc = "printRepo"
    /\ opts = [Repositories |-> <<>>, Last |-> 24 * Hour, Selector |-> "octo"]
    /\ now = Base
    /\ \E n \in 0..MaxCards :
          /\ repos = <<[Name |-> 1, Private |-> FALSE,
                        Workflows |-> [k \in 1..n |-> Workflow(<<119, 48 + k>>, <<>>, 0)]]>>
          /\ fetches = <<Fetch("orgs", 0, 0, 0, TRUE, 0), Fetch("workflows", 1, 0, 0, TRUE, 0)>>
                          \o [k \in 1..n |-> Fetch("runs", 1, k, 0, TRUE, 0)]
    /\ gi = 1
    /\ cardsPerRow \in 1..MaxCardsPerRow
    /\ totalBillableMs = 0
    /\ ri = 2
    /\ p = <<>>
    /\ wi = 1
    /\ out = <<>>
    /\ totalMs = 0
    /\ rs = <<>>
    /\ runs = <<>>
    /\ ti = 1
    /\ pi = 1
    /\ cardRows = <<>>
    /\ rowIndex = 0
    /\ ci = 1
    /\ printed = <<[what |-> "title", last |-> 24 * Hour], [what |-> "total", ms |-> 0]>>
    /\ w = Workflow(<<>>, <<>>, 0)
    /\ length = 0
    /\ ret = <<>>

NextLayout ==
    \/ PrintDone
    \/ PrintRepoSkip
    \/ PrintRepo
    \/ PackCard
    \/ PrintRows

SpecLayout == InitLayout /\ [][NextLayout]_vars

-----------------------------------------------------------------------------
(* Claims about getWorkflows and _main *)

\* The calls of gh of one kind that were answered.
Answered(kind) == SelectSeq(fetches, LAMBDA f : f.kind = kind /\ f.ok)

\* The billed milliseconds the timing calls reported for the runs of the
\* k-th returned workflow of repository r.
OwnTimings(r, k) ==
    SelectSeq(fetches, LAMBDA f : f.kind = "timing" /\ f.ok /\ f.repo = r /\ f.wf = k)

OwnMs(r, k) == SumSeq([j \in 1..Len(OwnTimings(r, k)) |-> OwnTimings(r, k)[j].ms])

\* C1: in a private repository every workflow getWorkflows returned has
\* BillableMs equal to the sum of macOS + Windows + Linux total_ms over
\* exactly its own filtered runs, with nothing of an earlier workflow in it
\* (so a workflow without filtered runs has BillableMs = 0).
C1_BillableOwnRuns ==
    \A r \in 1..Len(repos) :
        repos[r].Private =>
            \A k \in 1..Len(repos[r].Workflows) :
                /\ Len(OwnTimings(r, k)) = Len(repos[r].Workflows[k].Runs)
                /\ repos[r].Workflows[k].BillableMs = OwnMs(r, k)
                /\ (repos[r].Workflows[k].Runs = <<>> =>
                       repos[r].Workflows[k].BillableMs = 0)

\* getWorkflows is running for repository ri: out is that repository's.
InGetWorkflows == pc \in {"workflowLoop", "fetchRuns", "timingLoop", "fetchTiming"}

\* C2: in a repository that is not private every workflow getWorkflows
\* returns has BillableMs = 0 whatever its runs, and no timing call is ever
\* issued for that repository.
C2_PublicNotBilled ==
    \A r \in 1..Len(repos) :
        ~repos[r].Private =>
            /\ \A k \in 1..Len(repos[r].Workflows) : repos[r].Workflows[k].BillableMs = 0
            /\ (InGetWorkflows /\ r = ri) => \A k \in 1..Len(out) : out[k].BillableMs = 0
            /\ \A i \in 1..Len(fetches) :
                   ~(fetches[i].kind = "timing" /\ fetches[i].repo = r)

\* C2 witness: the run is over, a private repository was billed, and after
\* it a public repository returned a workflow with two filtered runs.
C2_Witness ==
    /\ pc = "done"
    /\ Len(repos) = 2
    /\ repos[1].Private
    /\ totalBillableMs > 0
    /\ ~repos[2].Private
    /\ Len(repos[2].Workflows) = 2
    /\ Len(repos[2].Workflows[2].Runs) = 2

\* The runs the contract keeps: completed, and finished less than the
\* window before the instant the filter read the clock.
ContractKeeps(r) == r.Status = "completed" /\ (now - r.UpdatedAt) < opts.Last

\* C3: the runs kept for a workflow are exactly the listed runs that are
\* completed and finished less than the window ago, in the listed order:
\* nothing else is kept, no such run is dropped, and the result is never
\* longer than the listing.
C3_RunFilter ==
    pc = "timingLoop" =>
        /\ Len(runs) <= Len(rs)
        /\ \A k \in 1..Len(runs) :
              runs[k].Status = "completed" /\ (now - runs[k].Finished) < opts.Last
        /\ [k \in 1..Len(runs) |-> runs[k].URL]
              = [k \in 1..Len(SelectSeq(rs, ContractKeeps)) |->
                    SelectSeq(rs, ContractKeeps)[k].URL]
        /\ (rs = <<>> => runs = <<>>)

\* C3 witness: with a 24 h window, of a run still in progress, a run
\* finished 30 h ago and a run finished 1 h ago only the last is kept.
C3_Witness ==
    /\ pc = "timingLoop"
    /\ opts.Last = 24 * Hour
    /\ Len(rs) = 3
    /\ rs[1].Status = "in_progress"
    /\ rs[2].Status = "completed" /\ now - rs[2].UpdatedAt = 30 * Hour
    /\ rs[3].Status = "completed" /\ now - rs[3].UpdatedAt = 1 * Hour
    /\ [k \in 1..Len(runs) |-> runs[k].URL] = <<3>>

\* The rows printed for repository r, top to bottom.
PrintedRows(r) == SelectSeq(printed, LAMBDA x : x.what = "row" /\ x.repo = r)

RowSizes(r) == [k \in 1..Len(PrintedRows(r)) |-> Len(PrintedRows(r)[k].cards)]

\* C4: for cardCount >= 0 cards and cardsPerRow >= 1 the packing loop makes
\* exactly ceil(cardCount / cardsPerRow) rows, whose sizes sum to cardCount
\* and whose concatenation is the cards in their input order (7 cards with
\* cardsPerRow = 3 give rows of 3, 3, 1); the row index never leaves the
\* allocated rows.
C4_CardGrid ==
    /\ (pc = "packLoop" /\ ci <= Len(repos[pi].Workflows)) =>
          /\ rowIndex < Len(cardRows)
          /\ (Len(cardRows[rowIndex + 1]) = cardsPerRow => rowIndex + 1 < Len(cardRows))
    /\ pc = "done" =>
          LET n == Len(repos[1].Workflows)
              rows == PrintedRows(1)
          IN /\ Len(rows) * cardsPerRow >= n
             /\ (Len(rows) - 1) * cardsPerRow < n
             /\ SumSeq(RowSizes(1)) = n
             /\ Concat([k \in 1..Len(rows) |-> rows[k].cards])
                    = [k \in 1..n |-> RenderCard(repos[1].Workflows[k])]
             /\ ((n = 7 /\ cardsPerRow = 3) => RowSizes(1) = <<3, 3, 1>>)

\* C4 witness: 7 cards with cardsPerRow = 3 were printed as rows of 3, 3, 1.
C4_Witness ==
    /\ pc = "done"
    /\ Len(repos[1].Workflows) = 7
    /\ cardsPerRow = 3
    /\ RowSizes(1) = <<3, 3, 1>>

\* A failed call of gh that the run does not survive: every call but the
\* orgs/ listing, whose failure makes populateRepos list users/ instead.
Fatal(f) == ~f.ok /\ f.kind \in {"repo", "users", "workflows", "runs", "timing"}

C9_TotalCountsEachRunOnce ==
    Len(printed) >= 2 =>
        printed[2].ms
            = SumSeq([j \in 1..Len(Answered("timing")) |-> Answered("timing")[j].ms])

-----------------------------------------------------------------------------
(* The helpers called on their own: the caller draws the receiver and the  *)
(* arguments, one action makes the call.                                   *)

\* _main and getWorkflows are not running.
MainIdle ==
    /\ opts = [Repositories |-> <<>>, Last |-> 0, Selector |-> "octo"]
    /\ now = 0
    /\ repos = <<>>
    /\ gi = 1
    /\ cardsPerRow = 0
    /\ totalBillableMs = 0
    /\ ri = 1
    /\ p = <<>>
    /\ wi = 1
    /\ out = <<>>
    /\ totalMs = 0
    /\ rs = <<>>
    /\ runs = <<>>
    /\ ti = 1
    /\ pi = 1
    /\ cardRows = <<>>
    /\ rowIndex = 0
    /\ ci = 1
    /\ printed = <<>>
    /\ fetches = <<>>

\* (Status, Conclusion) of the runs given to RenderHealth: a run still in
\* progress has no conclusion yet.
HealthKinds ==
    {<<"in_progress", "">>, <<"completed", "success">>, <<"completed", "failure">>,
     <<"completed", "skipped">>, <<"completed", "cancelled">>,
     <<"completed", "neutral">>}

KindRuns(kinds) == [k \in DOMAIN kinds |-> Run(0, 0, kinds[k][1], kinds[k][2], 0)]

InitHealth ==
    /\ MainIdle
    /\ pc = "RenderHealth"
    /\ \E n \in 0..MaxRuns : \E kinds \in [1..n -> HealthKinds] :
          w = Workflow(<<>>, KindRuns(kinds), 0)
    /\ length = 0
    /\ ret = <<>>

CallRenderHealth ==
    /\ pc = "RenderHealth"
    /\ ret' = RenderHealth(w)
    /\ pc' = "returned"
    /\ UNCHANGED <<opts, now, repos, gi, cardsPerRow, totalBillableMs, ri, p, wi, out,
                   totalMs, rs, runs, ti, pi, cardRows, rowIndex, ci, printed, fetches,
                   w, length>>

NextHealth == CallRenderHealth

SpecHealth == InitHealth /\ [][NextHealth]_vars

\* Elapsed times of the runs given to AverageElapsed, in milliseconds.
ElapsedValues == {0, 1500, 5000, 59999}

ElapsedRuns(es) == [k \in DOMAIN es |-> Run(0, es[k], "completed", "success", 0)]

InitElapsed ==
    /\ MainIdle
    /\ pc = "AverageElapsed"
    /\ \E n \in 0..MaxRuns : \E es \in [1..n -> ElapsedValues] :
          w = Workflow(<<>>, ElapsedRuns(es), 0)
    /\ length = 0
    /\ ret = 0

CallAverageElapsed ==
    /\ pc = "AverageElapsed"
    /\ ret' = AverageElapsed(w)
    /\ pc' = "returned"
    /\ UNCHANGED <<opts, now, repos, gi, cardsPerRow, totalBillableMs, ri, p, wi, out,
                   totalMs, rs, runs, ti, pi, cardRows, rowIndex, ci, printed, fetches,
                   w, length>>

NextElapsed == CallAverageElapsed

SpecElapsed == InitElapsed /\ [][NextElapsed]_vars

\* Bytes of the names given to truncateWorkflowName: "a", ".", and the two
\* bytes 0xC3 0xA9 of a two-byte UTF-8 character.
NameBytes == {97, 46, 195, 169}

InitTruncate ==
    /\ MainIdle
    /\ pc = "truncateWorkflowName"
    /\ \E n \in 0..MaxNameLen : \E name \in [1..n -> NameBytes] :
          w = Workflow(name, <<>>, 0)
    /\ length \in 0..MaxLimit
    /\ ret = <<>>

CallTruncateWorkflowName ==
    /\ pc = "truncateWorkflowName"
    /\ ret' = truncateWorkflowName(w.Name, length)
    /\ pc' = "returned"
    /\ UNCHANGED <<opts, now, repos, gi, cardsPerRow, totalBillableMs, ri, p, wi, out,
                   totalMs, rs, runs, ti, pi, cardRows, rowIndex, ci, printed, fetches,
                   w, length>>

NextTruncate == CallTruncateWorkflowName

SpecTruncate == InitTruncate /\ [][NextTruncate]_vars

-----------------------------------------------------------------------------
(* Claims about the helpers *)

\* The symbol the contract gives a run.
ContractSymbol(r) ==
    CASE r.Status # "completed" -> "neutral"
      [] r.Status = "completed" /\ r.Conclusion = "success" -> "pass"
      [] r.Status = "completed" /\ r.Conclusion \in {"skipped", "cancelled", "neutral"}
            -> "neutral"
      [] OTHER -> "fail"

\* C5: RenderHealth emits exactly min(len(runs), N+1) symbols, N = 5, the
\* i-th symbol given by the i-th run alone: not completed -> neutral, success
\* -> pass, skipped / cancelled / neutral -> neutral, anything else -> fail.
C5_HealthSequence ==
    pc = "returned" =>
        /\ Len(ret) = Min(Len(w.Runs), 5 + 1)
        /\ \A i \in 1..Len(ret) : ret[i] = ContractSymbol(w.Runs[i])

\* C5 witness: seven runs, the first five [success, failure, skipped,
\* success, success]; six symbols come back, starting [pass, fail, neutral,
\* pass, pass].
C5_Witness ==
    /\ pc = "returned"
    /\ Len(w.Runs) = 7
    /\ [i \in 1..5 |-> w.Runs[i].Conclusion]
           = <<"success", "failure", "skipped", "success", "success">>
    /\ w.Runs[6].Conclusion = "cancelled"
    /\ w.Runs[7].Status = "in_progress"
    /\ ret = <<"pass", "fail", "neutral", "pass", "pass", "neutral">>

\* Whole-second elapsed times of the runs RenderHealth examines.
ExaminedSeconds(wf) ==
    [i \in 1..Min(Len(wf.Runs), 5 + 1) |-> wf.Runs[i].Elapsed \div 1000]

\* C6: AverageElapsed returns, in whole seconds, the sum of the whole-second
\* elapsed times of the examined prefix divided by the fixed cap 5 (integer
\* division), never by the number of runs examined; an empty list gives zero.
C6_FixedDivisor ==
    pc = "returned" =>
        /\ ret = (SumSeq(ExaminedSeconds(w)) \div 5) * 1000
        /\ (w.Runs = <<>> => ret = 0)

\* C6 witness: three runs of 5 s, 5 s and 59.999 s give 69 / 5 = 13 s, where
\* dividing by the three runs examined would give 23 s.
C6_Witness ==
    /\ pc = "returned"
    /\ [i \in 1..Len(w.Runs) |-> w.Runs[i].Elapsed] = <<5000, 5000, 59999>>
    /\ ret = 13000

\* C10: for a non-empty run list the value AverageElapsed returns is never
\* greater than the largest whole-second elapsed time among the runs it
\* examines.
C10_AverageAtMostMax ==
    (pc = "returned" /\ w.Runs # <<>>) =>
        ret <= MaxSeq(ExaminedSeconds(w)) * 1000

====
